---- MODULE Spec2Model ----
(***************************************************************************)
(* Model of walkdir's same_file.rs: is_same_file(path1, path2) and its two *)
(* backends (unix: fs::metadata + (dev, ino); windows: CreateFileW +       *)
(* GetFileInformationByHandle + a five field key), run by one or more      *)
(* threads against a filesystem that other processes may write to.         *)
(***************************************************************************)
EXTENDS Integers, Sequences, FiniteSets, TLC

VARIABLES
    backend,   \* "unix" or "windows": which impl_is_same_file was compiled in
    harness,   \* "single": one call, every path; "threads": concurrent calls
    size,      \* current size of every file object, as (high word, low word)
    writes,    \* number of writes other processes have made so far
    table,     \* the process handle table (windows)
    calls      \* every call of is_same_file: position, locals, result, log

vars == <<backend, harness, size, writes, table, calls>>

----------------------------------------------------------------------------
(* Bounds *)

\* Number of writes by other processes during a run.
MaxWrites == 1
\* Symbolic links followed while resolving one path.
MaxHops == 2

Calls == {"t1", "t2"}
HandleIds == 1..(2 * Cardinality(Calls))
NoHandle == 0

----------------------------------------------------------------------------
(* The filesystem the tests build in tmpdir(), plus the edge cases the     *)
(* comments of the source describe.                                        *)

\* File objects. dev/ino are what stat reports; vol/idxHi/idxLo are
\* dwVolumeSerialNumber, nFileIndexHigh, nFileIndexLow. (dev, ino) is unique
\* per object; (vol, idxHi, idxLo) is not: C collides with A, as on a
\* filesystem whose identifiers are wider than 64 bits.
Objects ==
    [ A   |-> [kind |-> "file", dir |-> "tmp", dev |-> 1, ino |-> 1,
               vol |-> 1, idxHi |-> 0, idxLo |-> 1, infoFails |-> FALSE],
      B   |-> [kind |-> "file", dir |-> "tmp", dev |-> 1, ino |-> 2,
               vol |-> 1, idxHi |-> 0, idxLo |-> 2, infoFails |-> FALSE],
      C   |-> [kind |-> "file", dir |-> "tmp", dev |-> 1, ino |-> 3,
               vol |-> 1, idxHi |-> 0, idxLo |-> 1, infoFails |-> FALSE],
      D   |-> [kind |-> "dir",  dir |-> "tmp", dev |-> 1, ino |-> 4,
               vol |-> 1, idxHi |-> 1, idxLo |-> 1, infoFails |-> FALSE],
      E   |-> [kind |-> "dir",  dir |-> "tmp", dev |-> 1, ino |-> 5,
               vol |-> 1, idxHi |-> 1, idxLo |-> 2, infoFails |-> FALSE],
      F   |-> [kind |-> "file", dir |-> "mnt", dev |-> 2, ino |-> 1,
               vol |-> 2, idxHi |-> 0, idxLo |-> 1, infoFails |-> FALSE],
      Bad |-> [kind |-> "file", dir |-> "tmp", dev |-> 1, ino |-> 6,
               vol |-> 1, idxHi |-> 0, idxLo |-> 6, infoFails |-> TRUE],
      La  |-> [kind |-> "link", dir |-> "tmp", dev |-> 1, ino |-> 7,
               vol |-> 1, idxHi |-> 0, idxLo |-> 7, infoFails |-> FALSE],
      Ld  |-> [kind |-> "link", dir |-> "tmp", dev |-> 1, ino |-> 8,
               vol |-> 1, idxHi |-> 0, idxLo |-> 8, infoFails |-> FALSE] ]

ObjectIds == DOMAIN Objects

\* Directory entries: a name is an object (several names of one object are
\* hard links), a symbolic link to another name, or a name the caller may
\* not traverse. Any other name does not exist.
Entries ==
    [ a      |-> [type |-> "obj", obj |-> "A"],
      alink  |-> [type |-> "obj", obj |-> "A"],
      asoft  |-> [type |-> "sym", obj |-> "La", to |-> "a"],
      b      |-> [type |-> "obj", obj |-> "B"],
      c      |-> [type |-> "obj", obj |-> "C"],
      d      |-> [type |-> "obj", obj |-> "D"],
      dsoft  |-> [type |-> "sym", obj |-> "Ld", to |-> "d"],
      e      |-> [type |-> "obj", obj |-> "E"],
      f      |-> [type |-> "obj", obj |-> "F"],
      bad    |-> [type |-> "obj", obj |-> "Bad"],
      denied |-> [type |-> "denied"] ]

Paths == DOMAIN Entries \cup {"missing"}
ThreadPaths == {"a", "missing", "bad"}

Ok(v) == [ok |-> TRUE, val |-> v, err |-> "", from |-> 0]
Err(kind, n) == [ok |-> FALSE, val |-> FALSE, err |-> kind, from |-> n]

\* Path resolution: the object a name denotes, or the OS error.
RECURSIVE Resolve(_, _, _)
Resolve(p, follow, hops) ==
    IF p \notin DOMAIN Entries THEN Err("NotFound", 0)
    ELSE LET en == Entries[p] IN
         CASE en.type = "denied" -> Err("PermissionDenied", 0)
           [] en.type = "obj"    -> Ok(en.obj)
           [] en.type = "sym"    ->
                IF ~follow THEN Ok(en.obj)
                ELSE IF hops = 0 THEN Err("Loop", 0)
                ELSE Resolve(en.to, follow, hops - 1)

ZeroSize == [hi |-> 0, lo |-> 0]
\* The sizes a file takes: every combination of a zero and a nonzero value
\* of nFileSizeHigh and of nFileSizeLow.
SizeValues == [hi : {0, 1}, lo : {0, 1}]
\* The files other processes hold open for writing.
Writable == {"A"}

----------------------------------------------------------------------------
(* The operating system calls the two backends make *)

NoInfo == [none |-> TRUE]

\* fs::metadata(p): one stat call, which follows symbolic links.
Metadata(p) ==
    LET r == Resolve(p, TRUE, MaxHops) IN
    IF ~r.ok THEN r
    ELSE IF Objects[r.val].infoFails THEN Err("Io", 0)
    ELSE Ok([dev |-> Objects[r.val].dev, ino |-> Objects[r.val].ino,
             kind |-> Objects[r.val].kind, len |-> size[r.val]])

\* dwFlagsAndAttributes of the CreateFileW call.
OpenFlags == {"FILE_FLAG_BACKUP_SEMANTICS"}

\* CreateFileW(p, 0, share all, OPEN_EXISTING, flags): the object the new
\* handle refers to, or the error. A directory opens only with
\* FILE_FLAG_BACKUP_SEMANTICS; a symbolic link is followed unless
\* FILE_FLAG_OPEN_REPARSE_POINT is given.
CreateFileW(p, flags) ==
    LET r == Resolve(p, "FILE_FLAG_OPEN_REPARSE_POINT" \notin flags, MaxHops) IN
    IF ~r.ok THEN r
    ELSE IF Objects[r.val].kind = "dir" /\ "FILE_FLAG_BACKUP_SEMANTICS" \notin flags
         THEN Err("PermissionDenied", 0)
    ELSE r

FreeHandle == [open |-> FALSE, obj |-> "", owner |-> ""]
FreeHandles == {h \in HandleIds : ~table[h].open}
\* The handle value the next successful CreateFileW returns.
NewHandle == CHOOSE h \in FreeHandles : \A g \in FreeHandles : h <= g

\* The BY_HANDLE_FILE_INFORMATION of object o as it is now, or the error.
InfoOf(o) ==
    IF Objects[o].infoFails THEN Err("Io", 0)
    ELSE Ok([dwVolumeSerialNumber |-> Objects[o].vol,
             nFileIndexHigh |-> Objects[o].idxHi,
             nFileIndexLow |-> Objects[o].idxLo,
             nFileSizeHigh |-> size[o].hi,
             nFileSizeLow |-> size[o].lo,
             dwFileAttributes |-> Objects[o].kind])

\* GetFileInformationByHandle(h, &info)
GetFileInformationByHandle(h) ==
    IF h \notin HandleIds \/ ~table[h].open THEN Err("InvalidHandle", 0)
    ELSE InfoOf(table[h].obj)

\* CloseHandle(h): the handle table afterwards.
CloseHandle(h) ==
    IF h \in HandleIds THEN [table EXCEPT ![h] = FreeHandle] ELSE table

----------------------------------------------------------------------------
(* impl_is_same_file *)

\* (md.dev(), md.ino())
UnixKey(md) == <<md.dev, md.ino>>

\* A key that leaves the size out.
WinKey_NoSize(i) ==
    <<i.dwVolumeSerialNumber, i.nFileIndexHigh, i.nFileIndexLow>>

\* k1 / k2 of the windows backend
WinKey(i) ==
    <<i.dwVolumeSerialNumber, i.nFileIndexHigh, i.nFileIndexLow,
      i.nFileSizeHigh, i.nFileSizeLow>>

\* Ok(k1 == k2)
KeysEqual(k1, k2) == k1 = k2

\* A failure of the second metadata query is not returned.
UnixControl_IgnoreSecondErr(pc, ok) ==
    CASE pc = "md1" -> IF ok THEN "md2" ELSE "done"
      [] pc = "md2" -> "cmp"
      [] pc = "cmp" -> "done"

\* The statement a unix call executes after statement pc succeeded or failed
\* (try! returns the error at once).
UnixControl(pc, ok) ==
    CASE pc = "md1" -> IF ok THEN "md2" ELSE "done"
      [] pc = "md2" -> IF ok THEN "cmp" ELSE "done"
      [] pc = "cmp" -> "done"

\* A failure of a handle information query is not returned.
WinControl_IgnoreInfoErr(pc, ok) ==
    CASE pc = "open1"   -> IF ok THEN "open2" ELSE "done"
      [] pc = "open2"   -> IF ok THEN "info1" ELSE "drop_h1"
      [] pc = "info1"   -> "info2"
      [] pc = "info2"   -> "cmp"
      [] pc = "cmp"     -> "drop_h2"
      [] pc = "drop_h2" -> "drop_h1"
      [] pc = "drop_h1" -> "done"

\* The first handle is not released when the second open fails.
WinControl_Leak(pc, ok) ==
    CASE pc = "open1"   -> IF ok THEN "open2" ELSE "done"
      [] pc = "open2"   -> IF ok THEN "info1" ELSE "done"
      [] pc = "info1"   -> IF ok THEN "info2" ELSE "drop_h2"
      [] pc = "info2"   -> IF ok THEN "cmp" ELSE "drop_h2"
      [] pc = "cmp"     -> "drop_h2"
      [] pc = "drop_h2" -> "drop_h1"
      [] pc = "drop_h1" -> "done"

\* Each path is opened and queried in turn.
WinControl_OpenQueryOpenQuery(pc, ok) ==
    CASE pc = "open1"   -> IF ok THEN "info1" ELSE "done"
      [] pc = "info1"   -> IF ok THEN "open2" ELSE "drop_h1"
      [] pc = "open2"   -> IF ok THEN "info2" ELSE "drop_h1"
      [] pc = "info2"   -> IF ok THEN "cmp" ELSE "drop_h2"
      [] pc = "cmp"     -> "drop_h2"
      [] pc = "drop_h2" -> "drop_h1"
      [] pc = "drop_h1" -> "done"

\* The same for a windows call. Leaving the function drops the locals that
\* hold a Handle, last declared first: h2, then h1.
WinControl(pc, ok) ==
    CASE pc = "open1"   -> IF ok THEN "open2" ELSE "done"
      [] pc = "open2"   -> IF ok THEN "info1" ELSE "drop_h1"
      [] pc = "info1"   -> IF ok THEN "info2" ELSE "drop_h2"
      [] pc = "info2"   -> IF ok THEN "cmp" ELSE "drop_h2"
      [] pc = "cmp"     -> "drop_h2"
      [] pc = "drop_h2" -> "drop_h1"
      [] pc = "drop_h1" -> "done"

\* file_info takes the handle by value and drops it when it returns.
FileInfoByValue == TRUE

\* file_info borrows the handle (h: &Handle): the caller still owns it
\* afterwards.
FileInfoTakesOwnership == FALSE

\* The handles are kept in one place shared by all calls.
HandleOf_Shared(c, k) == calls["t1"].h[k]

\* The handle value held by local h1 (k = 1) or h2 (k = 2) of call c.
HandleOf(c, k) == calls[c].h[k]

IdleCall ==
    [pc |-> "idle", p1 |-> "", p2 |-> "", h |-> <<NoHandle, NoHandle>>,
     owned |-> {}, i |-> <<NoInfo, NoInfo>>, res |-> NoInfo,
     w0 |-> 0, log |-> <<>>]

\* Slots of call c whose handle is open now and was opened by c.
Live(c) ==
    {k \in 1..2 : /\ calls[c].h[k] \in HandleIds
                  /\ table[calls[c].h[k]].open
                  /\ table[calls[c].h[k]].owner = c}

Event(op, n, ok, c, own) ==
    [op |-> op, n |-> n, ok |-> ok, live |-> Live(c), own |-> own]

CallerSet == IF harness = "threads" THEN Calls ELSE {"t1"}
ArgSet == IF harness = "threads" THEN ThreadPaths ELSE Paths

Init ==
    /\ backend \in {"unix", "windows"}
    /\ harness = "single"
    /\ size = [o \in ObjectIds |-> ZeroSize]
    /\ writes = 0
    /\ table = [h \in HandleIds |-> FreeHandle]
    /\ calls = [c \in Calls |-> IdleCall]

ThreadsInit ==
    /\ backend \in {"unix", "windows"}
    /\ harness = "threads"
    /\ size = [o \in ObjectIds |-> ZeroSize]
    /\ writes = 0
    /\ table = [h \in HandleIds |-> FreeHandle]
    /\ calls = [c \in Calls |-> IdleCall]

\* is_same_file(path1, path2): enter impl_is_same_file. Threads are
\* interchangeable, so t1 is the first to call.
IsSameFile(c) ==
    /\ c \in CallerSet
    /\ calls[c].pc = "idle"
    /\ c = "t1" \/ calls["t1"].pc # "idle"
    /\ \E path1 \in ArgSet, path2 \in ArgSet :
          calls' = [calls EXCEPT ![c] =
                      [@ EXCEPT !.pc = IF backend = "unix" THEN "md1" ELSE "open1",
                                !.p1 = path1, !.p2 = path2, !.w0 = writes]]
    /\ UNCHANGED <<backend, harness, size, writes, table>>

Finish(cl, pc) == [cl EXCEPT !.pc = pc]

\* let mdK = try!(fs::metadata(pK));
MetadataStep(c, k) ==
    /\ backend = "unix"
    /\ calls[c].pc = (IF k = 1 THEN "md1" ELSE "md2")
    /\ LET cl == calls[c]
           r  == Metadata(IF k = 1 THEN cl.p1 ELSE cl.p2)
           ev == Event("metadata", k, r.ok, c, TRUE)
           nx == UnixControl(cl.pc, r.ok)
       IN calls' = [calls EXCEPT ![c] =
            Finish([cl EXCEPT !.i[k] = IF r.ok THEN r.val ELSE @,
                              !.res = IF r.ok THEN @ ELSE Err(r.err, k),
                              !.log = Append(@, ev)], nx)]
    /\ UNCHANGED <<backend, harness, size, writes, table>>

\* Ok((md1.dev(), md1.ino()) == (md2.dev(), md2.ino()))
UnixCompare(c) ==
    /\ backend = "unix"
    /\ calls[c].pc = "cmp"
    /\ LET cl == calls[c]
           i1 == IF cl.i[1] = NoInfo THEN [dev |-> 0, ino |-> 0] ELSE cl.i[1]
           i2 == IF cl.i[2] = NoInfo THEN [dev |-> 0, ino |-> 0] ELSE cl.i[2]
       IN calls' = [calls EXCEPT ![c] =
            Finish([cl EXCEPT !.res = Ok(KeysEqual(UnixKey(i1), UnixKey(i2)))],
                   UnixControl(cl.pc, TRUE))]
    /\ UNCHANGED <<backend, harness, size, writes, table>>

\* let hK = try!(open_read_attr(&pK));
OpenReadAttr(c, k) ==
    /\ backend = "windows"
    /\ calls[c].pc = (IF k = 1 THEN "open1" ELSE "open2")
    /\ LET cl == calls[c]
           r  == CreateFileW(IF k = 1 THEN cl.p1 ELSE cl.p2, OpenFlags)
           ev == Event("open", k, r.ok, c, TRUE)
           nx == WinControl(cl.pc, r.ok)
       IN IF r.ok
          THEN LET h == NewHandle IN
                 /\ table' = [table EXCEPT ![h] =
                                [open |-> TRUE, obj |-> r.val, owner |-> c]]
                 /\ calls' = [calls EXCEPT ![c] =
                      Finish([cl EXCEPT !.h[k] = h, !.owned = @ \cup {k},
                                        !.log = Append(@, ev)], nx)]
          ELSE /\ table' = table
               /\ calls' = [calls EXCEPT ![c] =
                      Finish([cl EXCEPT !.res = Err(r.err, k),
                                        !.log = Append(@, ev)], nx)]
    /\ UNCHANGED <<backend, harness, size, writes>>

\* let iK = try!(file_info(&hK));
FileInfo(c, k) ==
    /\ backend = "windows"
    /\ calls[c].pc = (IF k = 1 THEN "info1" ELSE "info2")
    /\ LET cl  == calls[c]
           h   == HandleOf(c, k)
           r   == GetFileInformationByHandle(h)
           own == h \in HandleIds /\ table[h].open /\ table[h].owner = c
           ev  == Event("info", k, r.ok, c, own)
           nx  == WinControl(cl.pc, r.ok)
           mv  == FileInfoTakesOwnership /\ k \in cl.owned
       IN /\ calls' = [calls EXCEPT ![c] =
                Finish([cl EXCEPT !.i[k] = IF r.ok THEN r.val ELSE @,
                                  !.res = IF r.ok THEN @ ELSE Err(r.err, k),
                                  !.owned = IF mv THEN @ \ {k} ELSE @,
                                  !.log = IF mv
                                          THEN Append(Append(@, ev),
                                                 [op |-> "close", n |-> k, ok |-> own,
                                                  live |-> Live(c), own |-> own])
                                          ELSE Append(@, ev)], nx)]
          /\ table' = IF mv THEN CloseHandle(h) ELSE table
    /\ UNCHANGED <<backend, harness, size, writes>>

ZeroInfo ==
    [dwVolumeSerialNumber |-> 0, nFileIndexHigh |-> 0, nFileIndexLow |-> 0,
     nFileSizeHigh |-> 0, nFileSizeLow |-> 0, dwFileAttributes |-> ""]

\* let k1 = (...); let k2 = (...); Ok(k1 == k2)
WinCompare(c) ==
    /\ backend = "windows"
    /\ calls[c].pc = "cmp"
    /\ LET cl == calls[c]
           i1 == IF cl.i[1] = NoInfo THEN ZeroInfo ELSE cl.i[1]
           i2 == IF cl.i[2] = NoInfo THEN ZeroInfo ELSE cl.i[2]
       IN calls' = [calls EXCEPT ![c] =
            Finish([cl EXCEPT !.res = Ok(KeysEqual(WinKey(i1), WinKey(i2)))],
                   WinControl(cl.pc, TRUE))]
    /\ UNCHANGED <<backend, harness, size, writes, table>>

\* Drop for Handle: let _ = CloseHandle(self.0), run for local hK when the
\* function is left.
DropHandle(c, k) ==
    /\ backend = "windows"
    /\ calls[c].pc = (IF k = 1 THEN "drop_h1" ELSE "drop_h2")
    /\ LET cl  == calls[c]
           h   == HandleOf(c, k)
           own == h \in HandleIds /\ table[h].open /\ table[h].owner = c
           nx  == WinControl(cl.pc, TRUE)
       IN IF k \in cl.owned
          THEN /\ table' = CloseHandle(h)
               /\ calls' = [calls EXCEPT ![c] =
                    Finish([cl EXCEPT !.owned = @ \ {k},
                                      !.log = Append(@, Event("close", k, own, c, own))],
                           nx)]
          ELSE /\ table' = table
               /\ calls' = [calls EXCEPT ![c] = Finish(cl, nx)]
    /\ UNCHANGED <<backend, harness, size, writes>>

\* Another process writes to a file, changing its size.
WriteFile(o, s) ==
    /\ writes < MaxWrites
    /\ s # size[o]
    /\ size' = [size EXCEPT ![o] = s]
    /\ writes' = writes + 1
    /\ UNCHANGED <<backend, harness, table, calls>>

Next ==
    \/ \E c \in Calls : IsSameFile(c)
    \/ \E c \in Calls, k \in 1..2 : MetadataStep(c, k)
    \/ \E c \in Calls : UnixCompare(c)
    \/ \E c \in Calls, k \in 1..2 : OpenReadAttr(c, k)
    \/ \E c \in Calls, k \in 1..2 : FileInfo(c, k)
    \/ \E c \in Calls : WinCompare(c)
    \/ \E c \in Calls, k \in 1..2 : DropHandle(c, k)
    \/ \E o \in Writable, s \in SizeValues : WriteFile(o, s)

\* One call at a time, any pair of paths.
Spec == Init /\ [][Next]_vars

\* Calls from independent threads.
ThreadsSpec == ThreadsInit /\ [][Next]_vars

----------------------------------------------------------------------------
(* impl_is_same_file as a function of the filesystem: the result of a call *)
(* that runs from start to end with nothing else running.                  *)

Alone(path1, path2) ==
    IF backend = "unix"
    THEN LET md1 == Metadata(path1) IN
         IF ~md1.ok THEN Err(md1.err, 1)
         ELSE LET md2 == Metadata(path2) IN
              IF ~md2.ok THEN Err(md2.err, 2)
              ELSE Ok(KeysEqual(UnixKey(md1.val), UnixKey(md2.val)))
    ELSE LET h1 == CreateFileW(path1, OpenFlags) IN
         IF ~h1.ok THEN Err(h1.err, 1)
         ELSE LET h2 == CreateFileW(path2, OpenFlags) IN
              IF ~h2.ok THEN Err(h2.err, 2)
              ELSE LET i1 == InfoOf(h1.val) IN
                   IF ~i1.ok THEN Err(i1.err, 1)
                   ELSE LET i2 == InfoOf(h2.val) IN
                        IF ~i2.ok THEN Err(i2.err, 2)
                        ELSE Ok(KeysEqual(WinKey(i1.val), WinKey(i2.val)))

----------------------------------------------------------------------------
(* Vocabulary of the properties *)

Done(c) == calls[c].pc = "done"

\* The object a path names (symbolic links followed), if any.
Exists(p) == Resolve(p, TRUE, MaxHops).ok
Obj(p) == Resolve(p, TRUE, MaxHops).val

\* The identity information of p can be retrieved.
Retrievable(p) == Exists(p) /\ ~Objects[Obj(p)].infoFails

\* The OS error for a path that is not retrievable.
ErrKind(p) == IF Exists(p) THEN "Io" ELSE Resolve(p, TRUE, MaxHops).err

\* Events of call c with a given operation and argument number.
Events(c, op, n) ==
    {j \in DOMAIN calls[c].log : calls[c].log[j].op = op /\ calls[c].log[j].n = n}

----------------------------------------------------------------------------
(* Properties *)

\* C1: a finished call whose path1 or path2 is not retrievable (missing,
\* not accessible, or its information query fails) returned an error, never
\* Ok(true) or Ok(false), whichever argument it is and whatever the other is.
C1_ErrorWhenUnretrievable ==
    \A c \in Calls :
        (Done(c) /\ (~Retrievable(calls[c].p1) \/ ~Retrievable(calls[c].p2)))
            => ~calls[c].res.ok

\* C1 happens: the second argument does not exist, the first does.
C1_Witness ==
    \E c \in Calls :
        /\ Done(c) /\ backend = "windows"
        /\ Retrievable(calls[c].p1) /\ calls[c].p2 = "missing"
        /\ calls[c].res = Err("NotFound", 2)

\* C2: is_same_file(p, p) returns Ok(true) for every existing path p, also
\* when another process changes the file during the call.
C2_Reflexive ==
    \A c \in Calls :
        (Done(c) /\ calls[c].p1 = calls[c].p2 /\ Retrievable(calls[c].p1))
            => calls[c].res = Ok(TRUE)

\* C3: two different paths that name the same file object (a hard link, a
\* symbolic link and its target) compare equal.
C3_SameObjectEqual ==
    \A c \in Calls :
        (/\ Done(c) /\ calls[c].p1 # calls[c].p2
         /\ Retrievable(calls[c].p1) /\ Retrievable(calls[c].p2)
         /\ Obj(calls[c].p1) = Obj(calls[c].p2))
            => calls[c].res = Ok(TRUE)

\* Two names created in the same directory for two distinct, still empty
\* objects of the same kind.
FreshPair(p, q) ==
    /\ p \in DOMAIN Entries /\ q \in DOMAIN Entries
    /\ Entries[p].type = "obj" /\ Entries[q].type = "obj"
    /\ Entries[p].obj # Entries[q].obj
    /\ Retrievable(p) /\ Retrievable(q)
    /\ Objects[Obj(p)].kind = Objects[Obj(q)].kind
    /\ Objects[Obj(p)].dir = "tmp" /\ Objects[Obj(q)].dir = "tmp"
    /\ size[Obj(p)] = ZeroSize /\ size[Obj(q)] = ZeroSize

\* C4: two distinct freshly created empty files (or directories) of one
\* directory compare as different: the call returns Ok(false).
C4_FreshDistinctDiffer ==
    \A c \in Calls :
        (Done(c) /\ writes = 0 /\ FreshPair(calls[c].p1, calls[c].p2))
            => calls[c].res = Ok(FALSE)

\* C5: at each of the two handle information queries both handles of the
\* call are open (and are the call's own), and no handle of the call is
\* closed before a query: every close comes after every query.
C5_BothOpenAtQueries ==
    \A c \in Calls :
        LET log == calls[c].log IN
        /\ \A j \in DOMAIN log :
              log[j].op = "info" => (log[j].live = {1, 2} /\ log[j].own)
        /\ \A j \in DOMAIN log : \A m \in DOMAIN log :
              (log[j].op = "close" /\ log[m].op = "info") => m < j

\* C5 happens: a call made both queries and returned a boolean.
C5_Witness ==
    \E c \in Calls :
        /\ Done(c) /\ calls[c].res.ok
        /\ Events(c, "info", 1) # {} /\ Events(c, "info", 2) # {}
        /\ Events(c, "close", 1) # {} /\ Events(c, "close", 2) # {}

\* Number of successful opens / of closes of slot k by call c.
Opened(c, k) == Cardinality({j \in Events(c, "open", k) : calls[c].log[j].ok})
Closed(c, k) == Cardinality(Events(c, "close", k))

\* C6: when a call has returned, on any exit path, it holds no open handle
\* and every handle it opened has been closed exactly once.
C6_HandlesClosedAtReturn ==
    \A c \in Calls :
        Done(c) =>
            /\ Live(c) = {}
            /\ calls[c].owned = {}
            /\ \A h \in HandleIds : ~(table[h].open /\ table[h].owner = c)
            /\ \A k \in 1..2 :
                  /\ Closed(c, k) = Opened(c, k)
                  /\ \A j \in Events(c, "close", k) : calls[c].log[j].ok

\* C6 happens on an early exit: the second open failed after the first
\* succeeded, and the first handle was closed.
C6_Witness ==
    \E c \in Calls :
        /\ Done(c) /\ backend = "windows"
        /\ calls[c].res = Err("NotFound", 2)
        /\ Opened(c, 1) = 1 /\ Closed(c, 1) = 1 /\ Opened(c, 2) = 0

\* C7: calls running concurrently do not interfere: a call during which the
\* filesystem did not change returned what it returns when run alone, and
\* every handle a call read or closed was open and opened by that call.
C7_NoInterference ==
    \A c \in Calls :
        /\ \A j \in DOMAIN calls[c].log : calls[c].log[j].own
        /\ (Done(c) /\ calls[c].w0 = writes)
              => calls[c].res = Alone(calls[c].p1, calls[c].p2)

\* C7 happens: two calls ran interleaved (t2 opened its first handle between
\* the two opens of t1) and both returned.
C7_Witness ==
    /\ backend = "windows" /\ Done("t1") /\ Done("t2")
    /\ calls["t1"].w0 = writes /\ calls["t2"].w0 = writes
    /\ calls["t1"].h[1] < calls["t2"].h[1]
    /\ calls["t2"].h[1] < calls["t1"].h[2]

\* The first failing event of a call's log, 0 if none failed.
FirstFailure(c) ==
    LET bad == {j \in DOMAIN calls[c].log : ~calls[c].log[j].ok} IN
    IF bad = {} THEN 0 ELSE CHOOSE j \in bad : \A m \in bad : j <= m

\* C8 as stated: when path1 is not retrievable the call returns path1's
\* error and path2 was neither opened nor queried; when path1 is retrievable
\* and path2 is not, path2's error is returned; on windows no information
\* query follows a failed open of path2 and the second handle is not queried
\* after the query of the first failed.
C8_ShortCircuitAsStated ==
    \A c \in Calls :
        Done(c) =>
            LET cl == calls[c] IN
            /\ ~Retrievable(cl.p1) =>
                  /\ cl.res = Err(ErrKind(cl.p1), 1)
                  /\ \A j \in DOMAIN cl.log : cl.log[j].n = 1
            /\ (Retrievable(cl.p1) /\ ~Retrievable(cl.p2)) =>
                  cl.res = Err(ErrKind(cl.p2), 2)
            /\ (\E j \in Events(c, "open", 2) : ~cl.log[j].ok) =>
                  Events(c, "info", 1) \cup Events(c, "info", 2) = {}
            /\ (\E j \in Events(c, "info", 1) : ~cl.log[j].ok) =>
                  Events(c, "info", 2) = {}

\* C8 amended: the first OS call on path1 (metadata on unix, open on
\* windows) failing returns path1's error with path2 untouched; on unix any
\* failure for path1 is of that kind. On windows a path1 whose open succeeds
\* but whose information query would fail has path2 opened first: if that
\* open fails, path2's error is returned, else path1's, with the second
\* handle never queried. If path1 is retrievable and path2 is not, path2's
\* error is returned. Both opens precede every information query, so a
\* failed open of path2 returns before any query.
C8_ShortCircuit ==
    \A c \in Calls :
        Done(c) =>
            LET cl == calls[c]
                ff == FirstFailure(c) IN
            /\ (ff = 1) =>
                  /\ cl.res = Err(ErrKind(cl.p1), 1)
                  /\ \A j \in DOMAIN cl.log : cl.log[j].n = 1
            /\ (backend = "unix" /\ ~Retrievable(cl.p1)) => ff = 1
            /\ (backend = "windows" /\ ~Retrievable(cl.p1) /\ ff # 1) =>
                  /\ Events(c, "open", 2) # {}
                  /\ Events(c, "info", 2) = {}
                  /\ cl.res = IF \E j \in Events(c, "open", 2) : ~cl.log[j].ok
                              THEN Err(Resolve(cl.p2, TRUE, MaxHops).err, 2)
                              ELSE Err(ErrKind(cl.p1), 1)
            /\ (Retrievable(cl.p1) /\ ~Retrievable(cl.p2)) =>
                  cl.res = Err(ErrKind(cl.p2), 2)
            /\ \A j \in DOMAIN cl.log : \A m \in DOMAIN cl.log :
                  (cl.log[j].op = "open" /\ cl.log[m].op = "info") => j < m
            /\ (\E j \in Events(c, "open", 2) : ~cl.log[j].ok) =>
                  Events(c, "info", 1) \cup Events(c, "info", 2) = {}
            /\ (\E j \in Events(c, "info", 1) : ~cl.log[j].ok) =>
                  Events(c, "info", 2) = {}
            /\ ff # 0 => (~cl.res.ok /\ cl.res.from = cl.log[ff].n)

\* C8 happens in the case the amendment is about: on windows the query of
\* the first handle failed after path2 had been opened.
C8_Witness ==
    \E c \in Calls :
        /\ Done(c) /\ backend = "windows"
        /\ calls[c].res = Err("Io", 1)
        /\ \E j \in Events(c, "open", 2) : calls[c].log[j].ok
        /\ Events(c, "info", 2) = {}

\* The fields of the identity key of each backend.
KeyFields ==
    IF backend = "unix" THEN {"dev", "ino"}
    ELSE {"dwVolumeSerialNumber", "nFileIndexHigh", "nFileIndexLow",
          "nFileSizeHigh", "nFileSizeLow"}

\* C9: when both retrievals succeeded the call returns Ok(true) if the two
\* objects' identity information agrees in every key field ((dev, ino) on
\* unix; volume serial, file index high and low, size high and low on
\* windows) and Ok(false) if it differs in any one of them; the information
\* compared is that of the objects the paths name.
C9_KeyEquality ==
    \A c \in Calls :
        LET cl == calls[c] IN
        (Done(c) /\ FirstFailure(c) = 0) =>
            /\ cl.res.ok
            /\ cl.res.val = (\A fld \in KeyFields : cl.i[1][fld] = cl.i[2][fld])
            /\ \A k \in 1..2 :
                  LET o == Objects[Obj(IF k = 1 THEN cl.p1 ELSE cl.p2)] IN
                  IF backend = "unix"
                  THEN cl.i[k].dev = o.dev /\ cl.i[k].ino = o.ino
                  ELSE /\ cl.i[k].dwVolumeSerialNumber = o.vol
                       /\ cl.i[k].nFileIndexHigh = o.idxHi
                       /\ cl.i[k].nFileIndexLow = o.idxLo

\* C9 happens: two objects with equal volume serial and file index but a
\* different size compared as different.
C9_Witness ==
    \E c \in Calls :
        /\ Done(c) /\ backend = "windows"
        /\ calls[c].res = Ok(FALSE)
        /\ calls[c].p1 = "a" /\ calls[c].p2 = "c"
        /\ calls[c].i[1].nFileSizeHigh # calls[c].i[2].nFileSizeHigh
        /\ calls[c].i[1].nFileSizeLow = calls[c].i[2].nFileSizeLow

====
